---------------------------- MODULE Spec2Model ----------------------------
(***************************************************************************)
(* Model of hlgirard/ImageAnalysis:                                        *)
(*   src/analysis-tools/analyze_front.py  (ice-front pipeline)             *)
(*   src/xptools/analyze_bubbles.py       (bubble pipeline)                *)
(*                                                                         *)
(* Three specifications share the variables below:                         *)
(*   Spec      the front pipeline's __main__ block, one run                *)
(*   SpecBub   the bubble pipeline's main(), one run                       *)
(*   SpecFn    the pure functions (numpy crop, analyze_front) applied to   *)
(*             inputs drawn from bounded sets                              *)
(*                                                                         *)
(* Python strings are sequences of one-character strings, images are       *)
(* records [h, w, px] with 0-based pixel coordinates as in numpy.          *)
(***************************************************************************)
EXTENDS Integers, Sequences, FiniteSets, TLC

VARIABLES
    dirname,    \* args.directory: the path given on the command line
    fsKind,     \* what the file system holds at dirname: "dir", "file", "none"
    listing,    \* os.listdir(dirname): sequence of file names
    media,      \* file name -> decoded content (clip: sequence of frames; image)
    bReprocess, \* args.reprocess
    scale,      \* args.scale (bubble pipeline)
    blob,       \* content of the pickle at savepath, or NoBlob
    pc,         \* position of the main program
    file_list,  \* file_list of the main program
    df_crop,    \* dataframe of cropping boxes: sequence of [ExpName, CroppingBox]
    shown,      \* per file: Python index of the frame handed to select_rectangle
    status,     \* per file: state of its joblib task / loop iteration
    results,    \* per file: dataframe returned by its task
    order,      \* file indices in the order their tasks completed
    segInput,   \* per file: the images handed to the segmenter
    usedBox,    \* per file: the cropping box looked up for it
    roi_df,     \* df_crop local to obtain_cropping_boxes while it runs
    df_list,    \* the list Parallel(...) returned
    df,         \* the ResultSet of the run
    plotted,    \* the dataframes handed to the plotting function, in call order
    err,        \* the exception that ended the run, or "none"
    arg,        \* SpecFn: the arguments of the function applied
    ret         \* SpecFn: its result

vars == <<dirname, fsKind, listing, media, bReprocess, scale, blob, pc, file_list,
          df_crop, shown, status, results, order, segInput, usedBox, roi_df, df_list,
          df, plotted,
          err, arg, ret>>

runVars == <<dirname, fsKind, listing, media, bReprocess, scale, blob, pc, file_list,
             df_crop, shown, status, results, order, segInput, usedBox, roi_df, df_list,
          df, plotted,
             err>>

(***************************************************************************)
(* Bounds of the model                                                     *)
(***************************************************************************)
MaxFrames == 11    \* longest clip, in frames
MaxOn     == 3     \* most bright pixels of an image given to SpecFn
FnH       == 3     \* height of the images given to SpecFn
FnW       == 5     \* width of the images given to SpecFn
FrameH    == 3     \* height of the frames of a clip
FrameW    == 3     \* width of the frames of a clip

(***************************************************************************)
(* Generic helpers                                                         *)
(***************************************************************************)
Max(a, b) == IF a >= b THEN a ELSE b
Min(a, b) == IF a <= b THEN a ELSE b
Last(s)   == s[Len(s)]

RECURSIVE Gcd(_, _)
Gcd(a, b) == IF b = 0 THEN a ELSE Gcd(b, a % b)

\* Python 3 true division a / b of two non-negative integers, b > 0: the
\* quotient as a fraction in lowest terms.
TrueDiv(a, b) == LET g == Gcd(a, b) IN [num |-> a \div g, den |-> b \div g]

RECURSIVE ConcatAll(_)
ConcatAll(ss) == IF ss = <<>> THEN <<>> ELSE Head(ss) \o ConcatAll(Tail(ss))

(***************************************************************************)
(* Python str operations                                                   *)
(***************************************************************************)
\* str.split(sep) for a one-character separator: every occurrence splits,
\* empty pieces are kept.
RECURSIVE Split(_, _)
Split(s, sep) ==
    IF \A i \in 1..Len(s) : s[i] # sep
    THEN <<s>>
    ELSE LET k == CHOOSE i \in 1..Len(s) :
                      s[i] = sep /\ \A j \in 1..(i - 1) : s[j] # sep
         IN  <<SubSeq(s, 1, k - 1)>> \o Split(SubSeq(s, k + 1, Len(s)), sep)

\* str.endswith(suffix)
EndsWith(s, suffix) ==
    /\ Len(s) >= Len(suffix)
    /\ SubSeq(s, Len(s) - Len(suffix) + 1, Len(s)) = suffix

\* Python sequence index: s[i] for 0 <= i < len, s[len+i] for -len <= i < 0,
\* IndexError otherwise.  The result is the 0-based position, or -1 for IndexError.
PyIndex(i, n) ==
    IF 0 <= i /\ i < n THEN i
    ELSE IF i < 0 /\ i >= 0 - n THEN n + i
    ELSE -1

\* Python slice bound: a start or stop value clamped to a dimension of length n.
SliceIdx(a, n) == IF a < 0 THEN Max(a + n, 0) ELSE Min(a, n)

(***************************************************************************)
(* Images                                                                  *)
(***************************************************************************)
\* Two of the 256 grey levels img_as_ubyte produces: background and foreground
Grey   == <<0, 200>>
Dark   == Grey[1]
Bright == Grey[2]

Pixels(h, w) == (0..(h - 1)) \X (0..(w - 1))

\* The h x w image whose pixels in `on` are Bright and the others Dark.
ImgOf(h, w, on) ==
    [h |-> h, w |-> w,
     px |-> [p \in Pixels(h, w) |-> IF p \in on THEN Bright ELSE Dark]]

\* The h x w image whose pixels all differ: each holds its raster position.
Ramp(h, w) == [h |-> h, w |-> w, px |-> [p \in Pixels(h, w) |-> p[1] * w + p[2]]]

\* Cropper: numpy basic slicing img[minRow:maxRow, minCol:maxCol].  Slicing
\* never raises: bounds beyond the shape are clamped, negative bounds count
\* from the end.
Crop(img, box) ==
    LET r0 == SliceIdx(box[1], img.h)
        c0 == SliceIdx(box[2], img.w)
        r1 == SliceIdx(box[3], img.h)
        c1 == SliceIdx(box[4], img.w)
        nh == Max(0, r1 - r0)
        nw == Max(0, c1 - c0)
    IN  [h |-> nh, w |-> nw,
         px |-> [p \in Pixels(nh, nw) |-> img.px[<<p[1] + r0, p[2] + c0>>]]]

(***************************************************************************)
(* Largest-region segmenter: analyze_front                                 *)
(***************************************************************************)
\* Chebyshev neighbourhood of the 3x3 footprint square(3)
Near(p, q) ==
    /\ p[1] - q[1] \in {-1, 0, 1}
    /\ p[2] - q[2] \in {-1, 0, 1}

\* img > thresh
Binarize(img, thresh) == {p \in Pixels(img.h, img.w) : img.px[p] > thresh}

\* skimage.morphology.dilation / erosion with square(3); the border is
\* handled by reflection, which for a footprint of radius 1 repeats pixels
\* that are already under the footprint.
Dilate(S, h, w) == {p \in Pixels(h, w) : \E q \in S : Near(p, q)}
Erode(S, h, w)  == {p \in Pixels(h, w) : \A q \in Pixels(h, w) : Near(p, q) => q \in S}

\* closing(img_min_thresh, square(3)): dilation followed by erosion
Closing(S, h, w) == Erode(Dilate(S, h, w), h, w)

\* raster (row-major) position of a pixel
Raster(p, w) == p[1] * w + p[2]

\* The 8-connected component of S that holds the pixels of `seed`.
RECURSIVE Flood(_, _)
Flood(seed, S) ==
    LET grown == seed \cup {q \in S : \E p \in seed : Near(p, q)}
    IN  IF grown = seed THEN seed ELSE Flood(grown, S)

\* skimage.measure.label(bw): 8-connectivity in 2-D, labels 1, 2, ... numbered
\* in raster order of each component's first pixel.  The result here is the
\* sequence of components, label k at position k.
RECURSIVE Label(_, _)
Label(S, w) ==
    IF S = {} THEN <<>>
    ELSE LET first == CHOOSE p \in S : \A q \in S : Raster(p, w) <= Raster(q, w)
             comp  == Flood({first}, S)
         IN  <<comp>> \o Label(S \ comp, w)

SetMin(S) == CHOOSE x \in S : \A y \in S : x <= y
SetMax(S) == CHOOSE x \in S : \A y \in S : x >= y

\* skimage.measure.regionprops: one entry per label, in label order, with
\* area = pixel count and bbox = (min_row, min_col, max_row + 1, max_col + 1).
RegionProps(labels) ==
    [k \in 1..Len(labels) |->
        LET rows == {p[1] : p \in labels[k]}
            cols == {p[2] : p \in labels[k]}
        IN  [label |-> k,
             area  |-> Cardinality(labels[k]),
             bbox  |-> <<SetMin(rows), SetMin(cols), SetMax(rows) + 1, SetMax(cols) + 1>>]]

\* argmax taking the last occurrence of the maximum
ArgMaxLast(xs) ==
    CHOOSE k \in 1..Len(xs) :
        /\ \A j \in 1..Len(xs) : xs[j] <= xs[k]
        /\ \A j \in (k + 1)..Len(xs) : xs[j] < xs[k]

\* np.argmax over a non-empty list: position of the first occurrence of the maximum
ArgMax(xs) ==
    CHOOSE k \in 1..Len(xs) :
        /\ \A j \in 1..Len(xs) : xs[j] <= xs[k]
        /\ \A j \in 1..(k - 1) : xs[j] < xs[k]

\* The value a raising call yields
Raised(kind) == [raised |-> kind]
IsRaised(v)  == "raised" \in DOMAIN v

FrontRow(expName, stackIdx, largest, h) ==
    [ExpName |-> expName, Frame |-> stackIdx, Area |-> largest.area,
     MinRow |-> largest.bbox[1], MinCol |-> largest.bbox[2],
     MaxRow |-> largest.bbox[3], MaxCol |-> largest.bbox[4],
     HeightPx |-> TrueDiv(largest.area, h)]

\* analyze_front with the empty case answered by an all-zero row
analyze_front_zero(img, thresh, expName, stackIdx) ==
    LET bw      == Closing(Binarize(img, thresh), img.h, img.w)
        regProp == RegionProps(Label(bw, img.w))
    IN  IF regProp = <<>>
        THEN FrontRow(expName, stackIdx, [area |-> 0, bbox |-> <<0, 0, 0, 0>>], img.h)
        ELSE FrontRow(expName, stackIdx,
                      regProp[ArgMax([k \in 1..Len(regProp) |-> regProp[k].area])],
                      img.h)

\* analyze_front(img, thresh, expName, stackIdx).  np.argmax of an empty list
\* raises (ValueError: attempt to get argmax of an empty sequence); that is
\* the segmenter's "no region found" failure.
analyze_front(img, thresh, expName, stackIdx) ==
    LET bw      == Closing(Binarize(img, thresh), img.h, img.w)
        regProp == RegionProps(Label(bw, img.w))
    IN  IF regProp = <<>>
        THEN Raised("NoRegionFound")
        ELSE FrontRow(expName, stackIdx,
                      regProp[ArgMax([k \in 1..Len(regProp) |-> regProp[k].area])],
                      img.h)

(***************************************************************************)
(* SpecFn: the pure functions on bounded inputs                            *)
(***************************************************************************)
NotRun == [notrun |-> TRUE]
Idle   == "idle"

\* Every image of FnH x FnW with at most MaxOn bright pixels
FnImages ==
    {ImgOf(FnH, FnW, on) : on \in {S \in SUBSET Pixels(FnH, FnW) : Cardinality(S) <= MaxOn}}

\* Thresholds below and at the bright level
FnThresholds == {Dark, Bright}

\* Boxes around, on and beyond the bounds of an FnH x FnW frame
FnBoxes == ((-1)..(FnH + 1)) \X ((-1)..(FnW + 1)) \X ((-1)..(FnH + 1)) \X ((-1)..(FnW + 1))

FnInputs ==
    {[fn |-> "crop", img |-> Ramp(FnH, FnW), box |-> b] : b \in FnBoxes}
    \cup {[fn |-> "analyze_front", img |-> i, thresh |-> t] : i \in FnImages, t \in FnThresholds}

ExpA == <<"A">>

InitFn ==
    /\ arg \in FnInputs
    /\ ret = NotRun
    /\ dirname = <<>> /\ fsKind = "none" /\ listing = <<>> /\ media = <<>>
    /\ bReprocess = FALSE /\ scale = 1 /\ blob = NotRun /\ pc = Idle
    /\ file_list = <<>> /\ df_crop = <<>> /\ shown = <<>> /\ status = <<>>
    /\ results = <<>> /\ order = <<>> /\ segInput = <<>> /\ usedBox = <<>>
    /\ roi_df = <<>> /\ df_list = <<>>
    /\ df = NotRun /\ plotted = <<>> /\ err = "none"

ApplyCrop ==
    /\ arg.fn = "crop" /\ ret = NotRun
    /\ ret' = Crop(arg.img, arg.box)
    /\ UNCHANGED <<runVars, arg>>

ApplyAnalyzeFront ==
    /\ arg.fn = "analyze_front" /\ ret = NotRun
    /\ ret' = analyze_front(arg.img, arg.thresh, ExpA, 0)
    /\ UNCHANGED <<runVars, arg>>

NextFn == ApplyCrop \/ ApplyAnalyzeFront

SpecFn == InitFn /\ [][NextFn]_vars

(***************************************************************************)
(* The environment of a run: paths, directory listings, media              *)
(***************************************************************************)
ExtAvi == <<".", "a", "v", "i">>
ExtPng == <<".", "p", "n", "g">>

\* The directories a run is started on: "d" and "./d"
DirNames == {<<"d">>, <<".", "/", "d">>}

\* What os.listdir returns, in directory-listing order
AviListings == {<<<<"n", ".", "t", "x", "t">>>>,
                <<<<"A">> \o ExtAvi>>,
                <<<<"A">> \o ExtAvi, <<"n", ".", "t", "x", "t">>, <<"B">> \o ExtAvi>>}

\* Frame k of a clip of n frames whose front starts `start` rows high and
\* advances by FrameH - 1 rows over the clip.
FrontFrame(k, n, start) ==
    ImgOf(FrameH, FrameW,
          {p \in Pixels(FrameH, FrameW) : p[1] < start + ((k * (FrameH - 1)) \div n)})

\* What a video file may hold: a recording of n frames of a front that
\* starts `start` rows high, or bytes that do not decode.  The recordings
\* are those of every length whose front is in view from the first frame,
\* and the two longest whose first frame is still blank.
Unreadable == [n |-> 0, start |-> 0, readable |-> FALSE]

Clips == {[n |-> n, start |-> 1, readable |-> TRUE] : n \in 0..MaxFrames}
         \cup {[n |-> n, start |-> 0, readable |-> TRUE] : n \in (MaxFrames - 1)..MaxFrames}
         \cup {Unreadable}

\* The frames v.decode(video=0) yields for a readable file, each converted
\* to grayscale ubyte and appended to the stack
Decode(content) ==
    [frames |-> [k \in 1..content.n |-> FrontFrame(k - 1, content.n, content.start)]]

\* [dirname + '/' + file for file in os.listdir(dirname) if file.endswith(ext)]
FileList(dir, names, ext) ==
    LET kept == SelectSeq(names, LAMBDA f : EndsWith(f, ext))
    IN  [k \in 1..Len(kept) |-> dir \o <<"/">> \o kept[k]]

Range(f) == {f[x] : x \in DOMAIN f}

(***************************************************************************)
(* Front pipeline: analyze_front.py                                        *)
(***************************************************************************)
NoBlob == [absent |-> TRUE]

\* A ResultSet left at savepath by an earlier run
OldDf == [rows |-> <<[ExpName |-> <<"o", "l", "d">>, Frame |-> 0, Area |-> 1,
                      MinRow |-> 0, MinCol |-> 0, MaxRow |-> 1, MaxCol |-> 1,
                      HeightPx |-> TrueDiv(1, 1)]>>]

\* name = file.split('.')[0].split('/')[-1]
ExpName(file) == Last(Split(Split(file, ".")[1], "/"))

\* open_video(file): [frames |-> the stack of grayscale frames], or the
\* decoder's exception
open_video(file) ==
    IF media[file].readable THEN Decode(media[file]) ELSE Raised("DecodeError")

\* select_roi.select_rectangle(img): the boxes the user may draw on img
select_rectangle(img) ==
    {<<0, 0, img.h, img.w>>, <<1, 0, img.h, img.w - 1>>}

\* skimage.filters.threshold_minimum(img): the valley between the two modes
\* of the histogram; raises when the histogram has no two maxima.
threshold_minimum(img) ==
    IF {Dark, Bright} \subseteq Range(img.px)
    THEN [value |-> (Dark + Bright) \div 2]
    ELSE Raised("ThresholdError")

\* determine_threshold(stack)
determine_threshold(stack) ==
    IF Len(stack) = 0
    THEN Raised("IndexError")
    ELSE threshold_minimum(stack[(Len(stack) \div 2) + 1])

\* df_crop[df_crop['ExpName'] == name]['CroppingBox'].iloc[0]
LookupBox(crops, name) ==
    LET hits == SelectSeq(crops, LAMBDA r : r.ExpName = name)
    IN  IF hits = <<>> THEN Raised("IndexError") ELSE [box |-> hits[1].CroppingBox]

\* The image process_movie hands to analyze_front for frame i (line 108)
SegmenterInput(stack, stack_cropped, i) == stack[i]

\* for i in range(len(stack)): df.loc[i] = analyze_front(...): the dataframe
\* [rows |-> the rows in frame order], or the first exception raised
RECURSIVE AnalyzeAll(_, _, _, _, _)
AnalyzeAll(imgs, thresh, name, i, rows) ==
    IF i > Len(imgs) THEN [rows |-> rows]
    ELSE LET row == analyze_front(imgs[i], thresh, name, i - 1)
         IN  IF IsRaised(row) THEN row
             ELSE AnalyzeAll(imgs, thresh, name, i + 1, Append(rows, row))

\* process_movie(file, df_crop): [out, box, seg] where out is the dataframe
\* returned or the exception raised, box the cropping box looked up and seg
\* the images handed to analyze_front.
process_movie(file, crops) ==
    LET name   == ExpName(file)
        opened == open_video(file)
        found  == LookupBox(crops, name)
    IN  IF IsRaised(opened) THEN [out |-> opened, box |-> NotRun, seg |-> <<>>]
        ELSE IF IsRaised(found) THEN [out |-> found, box |-> NotRun, seg |-> <<>>]
        ELSE LET stack == opened.frames
                 stack_cropped == [k \in 1..Len(stack) |-> Crop(stack[k], found.box)]
                 min_thresh    == determine_threshold(stack_cropped)
                 seg == [k \in 1..Len(stack) |-> SegmenterInput(stack, stack_cropped, k)]
             IN  IF IsRaised(min_thresh)
                 THEN [out |-> min_thresh, box |-> found, seg |-> <<>>]
                 ELSE [out |-> AnalyzeAll(seg, min_thresh.value, name, 1, <<>>),
                       box |-> found, seg |-> seg]

InitRun ==
    /\ bReprocess \in BOOLEAN
    /\ pc = "start"
    /\ file_list = <<>> /\ df_crop = <<>> /\ shown = <<>> /\ status = <<>>
    /\ results = <<>> /\ order = <<>> /\ segInput = <<>> /\ usedBox = <<>>
    /\ roi_df = <<>> /\ df_list = <<>>
    /\ df = NotRun /\ plotted = <<>> /\ err = "none"
    /\ arg = NotRun /\ ret = NotRun

Init ==
    /\ InitRun
    /\ scale = 1
    /\ dirname \in DirNames
    /\ \/ /\ fsKind = "dir"
          /\ listing \in AviListings
          /\ media \in [Range(FileList(dirname, listing, ExtAvi)) -> Clips]
       \/ /\ fsKind = "none"
          /\ listing = <<>>
          /\ media = <<>>
    /\ blob \in {NoBlob, OldDf}

\* The run ends with an exception
Abort(kind) ==
    /\ pc' = "aborted"
    /\ err' = kind

\* lines 193-197: list the directory, build file_list (os.listdir raises when
\* the directory does not exist)
ListFiles ==
    /\ pc = "start"
    /\ IF fsKind = "dir"
       THEN /\ file_list' = FileList(dirname, listing, ExtAvi)
            /\ pc' = "check"
            /\ err' = err
       ELSE /\ Abort("FileNotFoundError")
            /\ file_list' = file_list
    /\ UNCHANGED <<dirname, fsKind, listing, media, bReprocess, scale, blob, df_crop,
                   shown, status, results, order, segInput, usedBox, roi_df, df_list,
                   df, plotted, arg, ret>>

\* os.path.isfile(savepath) and not bReprocess
UseCache == blob # NoBlob /\ ~bReprocess

\* lines 200-202: the processed data is on disk and reprocessing is not forced
LoadFromDisk ==
    /\ pc = "check"
    /\ UseCache
    /\ df' = blob
    /\ pc' = "plot"
    /\ UNCHANGED <<dirname, fsKind, listing, media, bReprocess, scale, blob, file_list,
                   df_crop, shown, status, results, order, segInput, usedBox, roi_df,
                   df_list, plotted, err, arg, ret>>

\* lines 203-205: otherwise enter obtain_cropping_boxes(file_list)
StartProcessing ==
    /\ pc = "check"
    /\ ~UseCache
    /\ roi_df' = <<>>
    /\ pc' = "rois"
    /\ UNCHANGED <<dirname, fsKind, listing, media, bReprocess, scale, blob, file_list,
                   df_crop, shown, status, results, order, segInput, usedBox, df_list,
                   df, plotted, err, arg, ret>>

\* The frame index clamped at the first frame
RoiFrameIndexClamped(n) == Max(n - 10, 0)

\* The Python index of the frame shown for ROI selection: len(stack) - 10
RoiFrameIndex(n) == n - 10

\* lines 64-70: one iteration of the loop of obtain_cropping_boxes
SelectROI ==
    /\ pc = "rois"
    /\ Len(roi_df) < Len(file_list)
    /\ LET file   == file_list[Len(roi_df) + 1]
           name   == ExpName(file)
           opened == open_video(file)
           stack  == opened.frames
           pos    == IF IsRaised(opened) THEN -1
                     ELSE PyIndex(RoiFrameIndex(Len(stack)), Len(stack))
       IN  IF IsRaised(opened)
           THEN /\ Abort(opened.raised)
                /\ roi_df' = <<>>
                /\ shown' = shown
           ELSE IF pos = -1
           THEN /\ Abort("IndexError")
                /\ roi_df' = <<>>
                /\ shown' = shown
           ELSE /\ \E box \in select_rectangle(stack[pos + 1]) :
                      roi_df' = Append(roi_df, [ExpName |-> name, CroppingBox |-> box])
                /\ shown' = Append(shown, pos)
                /\ UNCHANGED <<pc, err>>
    /\ UNCHANGED <<dirname, fsKind, listing, media, bReprocess, scale, blob, file_list,
                   df_crop, status, results, order, segInput, usedBox, df_list, df,
                   plotted, arg, ret>>

\* lines 71, 205, 207: obtain_cropping_boxes returns, main binds df_crop and
\* Parallel dispatches one task per file
Dispatch ==
    /\ pc = "rois"
    /\ Len(roi_df) = Len(file_list)
    /\ df_crop' = roi_df
    /\ status' = [k \in 1..Len(file_list) |-> "pending"]
    /\ results' = [k \in 1..Len(file_list) |-> NotRun]
    /\ segInput' = [k \in 1..Len(file_list) |-> <<>>]
    /\ usedBox' = [k \in 1..Len(file_list) |-> NotRun]
    /\ pc' = "parallel"
    /\ UNCHANGED <<dirname, fsKind, listing, media, bReprocess, scale, blob, file_list,
                   shown, order, roi_df, df_list, df, plotted, err, arg, ret>>

\* line 207: the task of file i runs process_movie to its end, in a worker of
\* its own; tasks finish in any order
TaskFinish(i) ==
    /\ pc = "parallel"
    /\ status[i] = "pending"
    /\ \E r \in {process_movie(file_list[i], df_crop)} :
           /\ status' = [status EXCEPT ![i] = IF IsRaised(r.out) THEN "failed" ELSE "done"]
           /\ results' = [results EXCEPT ![i] = r.out]
           /\ segInput' = [segInput EXCEPT ![i] = r.seg]
           /\ usedBox' = [usedBox EXCEPT ![i] = r.box]
    /\ order' = Append(order, i)
    /\ UNCHANGED <<dirname, fsKind, listing, media, bReprocess, scale, blob, pc,
                   file_list, df_crop, shown, roi_df, df_list, df, plotted, err, arg, ret>>

\* The tasks' results in the order the tasks completed
GatherByCompletion(res, completed) == [k \in 1..Len(completed) |-> res[completed[k]]]

\* The list Parallel returns: the tasks' results in the order of the tasks
Gather(res, completed) == res

\* Parallel returning the results of the tasks that did not raise
JoinBestEffort ==
    /\ pc = "parallel"
    /\ \A i \in DOMAIN status : status[i] # "pending"
    /\ df_list' = SelectSeq(Gather(results, order), LAMBDA r : ~IsRaised(r))
    /\ pc' = "concat"
    /\ UNCHANGED <<dirname, fsKind, listing, media, bReprocess, scale, blob, file_list,
                   df_crop, shown, status, results, order, segInput, usedBox, roi_df,
                   df, plotted, err, arg, ret>>

\* line 207: Parallel returns once every task has returned
Join ==
    /\ pc = "parallel"
    /\ \A i \in DOMAIN status : status[i] = "done"
    /\ df_list' = Gather(results, order)
    /\ pc' = "concat"
    /\ UNCHANGED <<dirname, fsKind, listing, media, bReprocess, scale, blob, file_list,
                   df_crop, shown, status, results, order, segInput, usedBox, roi_df,
                   df, plotted, err, arg, ret>>

\* line 207: a task raised; Parallel re-raises its exception in the main program
JoinRaise ==
    /\ pc = "parallel"
    /\ \E i \in DOMAIN status :
          /\ status[i] = "failed"
          /\ Abort(results[i].raised)
    /\ UNCHANGED <<dirname, fsKind, listing, media, bReprocess, scale, blob, file_list,
                   df_crop, shown, status, results, order, segInput, usedBox, roi_df,
                   df_list, df, plotted, arg, ret>>

\* line 209: pd.concat(df_list).reset_index(drop=True); pd.concat raises on an
\* empty list
Concat ==
    /\ pc = "concat"
    /\ IF df_list = <<>>
       THEN /\ Abort("ValueError")
            /\ df' = df
       ELSE /\ df' = [rows |-> ConcatAll([k \in 1..Len(df_list) |-> df_list[k].rows])]
            /\ pc' = "save"
            /\ err' = err
    /\ UNCHANGED <<dirname, fsKind, listing, media, bReprocess, scale, blob, file_list,
                   df_crop, shown, status, results, order, segInput, usedBox, roi_df,
                   df_list, plotted, arg, ret>>

\* line 211: df.to_pickle(savepath)
Save ==
    /\ pc = "save"
    /\ blob' = df
    /\ pc' = "plot"
    /\ UNCHANGED <<dirname, fsKind, listing, media, bReprocess, scale, file_list,
                   df_crop, shown, status, results, order, segInput, usedBox, roi_df,
                   df_list, df, plotted, err, arg, ret>>

\* lines 213-216: plot the ResultSet
Plot ==
    /\ pc = "plot"
    /\ plotted' = Append(plotted, df)
    /\ pc' = "done"
    /\ UNCHANGED <<dirname, fsKind, listing, media, bReprocess, scale, blob, file_list,
                   df_crop, shown, status, results, order, segInput, usedBox, roi_df,
                   df_list, df, err, arg, ret>>

Next ==
    \/ ListFiles
    \/ LoadFromDisk
    \/ StartProcessing
    \/ SelectROI
    \/ Dispatch
    \/ \E i \in DOMAIN status : TaskFinish(i)
    \/ Join
    \/ JoinRaise
    \/ Concat
    \/ Save
    \/ Plot

Spec == Init /\ [][Next]_vars

(***************************************************************************)
(* Bubble pipeline: analyze_bubbles.py                                     *)
(***************************************************************************)
PngA == <<"A">> \o ExtPng
PngB == <<"B">> \o ExtPng

PngListings == {<<<<"n", ".", "t", "x", "t">>>>, <<PngA>>, <<PngB, PngA>>}

\* Paths of single files the bubble pipeline is started on: "/d/A.png",
\* "A.png" and "/d/n.txt"
FileArgs == {<<"/", "d", "/">> \o PngA, PngA, <<"/", "d", "/", "n", ".", "t", "x", "t">>}

\* os.getcwd()
Cwd == <<"/", "w">>

\* os.path.abspath(path), for a path without "." or ".." segments
AbsPath(path) == IF path[1] = "/" THEN path ELSE Cwd \o <<"/">> \o path

\* What a .png file may hold: io.imread returns the image or raises
Images == {[img |-> ImgOf(FrameH, FrameW, {<<1, 1>>})],
           [img |-> ImgOf(FrameH, FrameW, {<<0, 0>>, <<2, 2>>})],
           Raised("DecodeError")}

\* The file's base name, directory and extension stripped
\* (os.path.splitext(os.path.basename(file))[0])
BaseName(file) ==
    LET base == Last(Split(file, "/"))
        dots == {i \in 2..Len(base) : base[i] = "."}
    IN  IF dots = {} THEN base ELSE SubSeq(base, 1, SetMax(dots) - 1)

\* lines 45-62 of analyze_bubbles: Otsu threshold, closing, distance
\* transform, peak_local_max, watershed, ndi.label and regionprops are library
\* code; their result is any list of labeled regions that fits in the image.
BubbleRegions(img) ==
    {regs \in {<<>>,
               <<[label |-> 1, area |-> 1, eccentricity |-> 0, bbox_area |-> 1]>>,
               <<[label |-> 1, area |-> 4, eccentricity |-> 0, bbox_area |-> 4],
                 [label |-> 2, area |-> 2, eccentricity |-> 1, bbox_area |-> 2]>>} :
        \A k \in 1..Len(regs) : regs[k].bbox_area * Len(regs) <= img.h * img.w}

\* lines 63-66: one row per region, every region kept, areas divided by scale**2
analyze_bubbles(regs, sc, frame) ==
    [rows |-> [k \in 1..Len(regs) |->
                 [Frame |-> frame, Label |-> regs[k].label,
                  Area |-> TrueDiv(regs[k].area, sc * sc),
                  Eccentricity |-> regs[k].eccentricity,
                  BboxArea |-> TrueDiv(regs[k].bbox_area, sc * sc)]]]

InitBub ==
    /\ InitRun
    /\ scale \in {1, 2}
    /\ \/ /\ fsKind = "dir"
          /\ dirname \in DirNames
          /\ listing \in PngListings
          /\ media \in [Range(FileList(dirname, listing, ExtPng)) -> Images]
       \/ /\ fsKind = "file"
          /\ dirname \in FileArgs
          /\ listing = <<>>
          /\ media \in [{AbsPath(dirname)} -> Images]
       \/ /\ fsKind = "none"
          /\ dirname \in DirNames
          /\ listing = <<>>
          /\ media = <<>>
    /\ blob \in {NoBlob, OldDf}

\* lines 118-140: file or directory, file_list, savepath
BParse ==
    /\ pc = "start"
    /\ LET files == IF fsKind = "file" /\ EndsWith(dirname, ExtPng)
                    THEN [ok |-> <<AbsPath(dirname)>>]
                    ELSE IF fsKind = "dir"
                    THEN [ok |-> FileList(dirname, listing, ExtPng)]
                    ELSE Raised("ValueError")
       IN  IF IsRaised(files)
           THEN /\ Abort(files.raised)
                /\ file_list' = file_list
           ELSE IF files.ok = <<>>
           THEN /\ Abort("Exception")
                /\ file_list' = file_list
           ELSE /\ file_list' = files.ok
                /\ pc' = "rois"
                /\ err' = err
    /\ UNCHANGED <<dirname, fsKind, listing, media, bReprocess, scale, blob, df_crop,
                   shown, status, results, order, segInput, usedBox, roi_df, df_list,
                   df, plotted, arg, ret>>

\* line 143: one file of imagetools.obtain_cropping_boxes(file_list): the
\* user selects the ROI of the image named by the file's base name
BSelectROI ==
    /\ pc = "rois"
    /\ Len(roi_df) < Len(file_list)
    /\ LET file   == file_list[Len(roi_df) + 1]
           opened == media[file]
       IN  IF IsRaised(opened)
           THEN /\ Abort(opened.raised)
                /\ roi_df' = <<>>
           ELSE /\ \E box \in select_rectangle(opened.img) :
                      roi_df' = Append(roi_df, [ExpName |-> BaseName(file),
                                                CroppingBox |-> box])
                /\ UNCHANGED <<pc, err>>
    /\ UNCHANGED <<dirname, fsKind, listing, media, bReprocess, scale, blob, file_list,
                   df_crop, shown, status, results, order, segInput, usedBox, df_list,
                   df, plotted, arg, ret>>

\* line 143: obtain_cropping_boxes returns and main binds df_crop
BCropsDone ==
    /\ pc = "rois"
    /\ Len(roi_df) = Len(file_list)
    /\ df_crop' = roi_df
    /\ status' = [k \in 1..Len(file_list) |-> "pending"]
    /\ results' = [k \in 1..Len(file_list) |-> NotRun]
    /\ usedBox' = [k \in 1..Len(file_list) |-> NotRun]
    /\ pc' = "loop"
    /\ UNCHANGED <<dirname, fsKind, listing, media, bReprocess, scale, blob, file_list,
                   shown, order, segInput, roi_df, df_list, df, plotted, err, arg, ret>>

\* The dataframe main holds after processing one more file (line 151)
Accumulate(prev, new) == new

\* lines 146-152: one iteration of the loop over file_list
BProcess ==
    /\ pc = "loop"
    /\ Len(order) < Len(file_list)
    /\ LET k      == Len(order) + 1
           file   == file_list[k]
           found  == LookupBox(df_crop, ExpName(file))
           opened == media[file]
       IN  IF IsRaised(found) \/ IsRaised(opened)
           THEN /\ Abort(IF IsRaised(found) THEN found.raised ELSE opened.raised)
                /\ status' = [status EXCEPT ![k] = "failed"]
                /\ UNCHANGED <<results, usedBox, df, plotted>>
           ELSE /\ \E regs \in BubbleRegions(Crop(opened.img, found.box)) :
                     LET new == analyze_bubbles(regs, scale, 0)
                     IN  /\ results' = [results EXCEPT ![k] = new]
                         /\ df' = Accumulate(df, new)
                         /\ plotted' = Append(plotted, Accumulate(df, new))
                /\ status' = [status EXCEPT ![k] = "done"]
                /\ usedBox' = [usedBox EXCEPT ![k] = found]
                /\ UNCHANGED <<pc, err>>
    /\ order' = Append(order, Len(order) + 1)
    /\ UNCHANGED <<dirname, fsKind, listing, media, bReprocess, scale, blob, file_list,
                   df_crop, shown, segInput, roi_df, df_list, arg, ret>>

\* line 152: the loop is over and main returns
BEnd ==
    /\ pc = "loop"
    /\ Len(order) = Len(file_list)
    /\ pc' = "done"
    /\ UNCHANGED <<dirname, fsKind, listing, media, bReprocess, scale, blob, file_list,
                   df_crop, shown, status, results, order, segInput, usedBox, roi_df,
                   df_list, df, plotted, err, arg, ret>>

NextBub == BParse \/ BSelectROI \/ BCropsDone \/ BProcess \/ BEnd

SpecBub == InitBub /\ [][NextBub]_vars

(***************************************************************************)
(* Properties                                                              *)
(***************************************************************************)
\* The frames of file i of file_list
FramesOf(i) == open_video(file_list[i]).frames

\* Number of frames of the files before file i
RECURSIVE RowsBefore(_)
RowsBefore(i) == IF i <= 1 THEN 0 ELSE RowsBefore(i - 1) + Len(FramesOf(i - 1))

\* The run processed its files (it did not reload the ResultSet from disk)
Processed == pc \in {"save", "plot", "done"} /\ status # <<>>

\* C1: every image handed to the segmenter for frame k of a file is the
\* sub-grid of frame k addressed by the file's cropping box, the cropped
\* stack the threshold was estimated on.
C1_CropUniform ==
    \A i \in DOMAIN status :
        status[i] = "done" =>
            /\ Len(segInput[i]) = Len(FramesOf(i))
            /\ \A k \in 1..Len(segInput[i]) :
                   segInput[i][k] = Crop(FramesOf(i)[k], usedBox[i].box)

\* C2: the ResultSet is the per-file dataframes one after the other in
\* file-list order, each with one row per decoded frame in ascending frame
\* index, whatever the order in which the tasks completed, and it is built
\* only once every task has completed.
C2_ConcatInFileOrder ==
    /\ pc \in {"concat", "save"} \/ Processed =>
           \A i \in DOMAIN status : status[i] = "done"
    /\ Processed =>
           /\ Len(df.rows) = RowsBefore(Len(file_list) + 1)
           /\ \A i \in 1..Len(file_list) :
                  /\ Len(results[i].rows) = Len(FramesOf(i))
                  /\ \A k \in 1..Len(FramesOf(i)) :
                         /\ df.rows[RowsBefore(i) + k] = results[i].rows[k]
                         /\ df.rows[RowsBefore(i) + k].Frame = k - 1

\* C2: two tasks with different results completed in the reverse of the
\* file-list order and the run persisted its ResultSet.
C2_Witness ==
    /\ pc = "done"
    /\ order = <<2, 1>>
    /\ results[1] # results[2]
    /\ blob = df

\* C3: the blob changes only in the save step, after every task succeeded,
\* and to the full ResultSet; once a task has failed the run is in the
\* parallel section or aborted and the blob stays as it is.
C3_WriteOnlyAfterSuccess ==
    [][/\ blob' # blob =>
              /\ pc = "save"
              /\ status # <<>>
              /\ \A i \in DOMAIN status : status[i] = "done"
              /\ Len(df.rows) = RowsBefore(Len(file_list) + 1)
              /\ blob' = df
       /\ (\E i \in DOMAIN status' : status'[i] = "failed") =>
              /\ pc' \in {"parallel", "aborted"}
              /\ blob' = blob
       /\ pc = "aborted" => pc' = "aborted" /\ blob' = blob]_vars

\* C3: the run aborted on a failed task while another task had succeeded,
\* and the blob of the earlier run is still in place.
C3_Witness ==
    /\ pc = "aborted"
    /\ bReprocess
    /\ \E i \in DOMAIN status : status[i] = "failed"
    /\ \E i \in DOMAIN status : status[i] = "done"
    /\ blob = OldDf

\* C4: with the blob present and reprocess not set, no ROI is selected, no
\* file is processed and the ResultSet plotted is the blob; a run that ends
\* has its ResultSet persisted, and a forced run has processed every file.
C4_CacheDecides ==
    /\ (blob # NoBlob /\ ~bReprocess /\ pc \notin {"plot", "done"}) =>
           roi_df = <<>> /\ df_crop = <<>> /\ status = <<>>
    /\ pc \in {"plot", "done"} => df = blob
    /\ (pc = "done" /\ bReprocess) =>
           /\ Len(status) = Len(file_list)
           /\ \A i \in DOMAIN status : status[i] = "done"

\* C5: the experiment name of every file is its base name, directory and
\* extension stripped, and every file is cropped with the box selected for
\* that very file.
C5_OwnBox ==
    /\ \A i \in 1..Len(roi_df) : roi_df[i].ExpName = BaseName(file_list[i])
    /\ \A i \in DOMAIN usedBox :
           usedBox[i] # NotRun => usedBox[i].box = df_crop[i].CroppingBox

\* The box is ordered: minRow < maxRow and minCol < maxCol
Ordered(box) == box[1] < box[3] /\ box[2] < box[4]

\* The box exceeds the bounds of the image
Exceeds(box, img) == box[1] < 0 \/ box[2] < 0 \/ box[3] > img.h \/ box[4] > img.w

\* C6: for an ordered box, the cropper raises when the box exceeds the
\* frame's bounds, and every crop it returns has shape
\* (maxRow - minRow, maxCol - minCol).
C6_CropRejectsOutOfBounds ==
    (arg.fn = "crop" /\ ret # NotRun /\ Ordered(arg.box)) =>
        /\ Exceeds(arg.box, arg.img) => IsRaised(ret)
        /\ ~IsRaised(ret) =>
               /\ ret.h = arg.box[3] - arg.box[1]
               /\ ret.w = arg.box[4] - arg.box[2]

\* C7: analyze_front raises when the closed mask has no connected component,
\* in particular when no pixel is above the threshold; a row it returns has
\* a pixel above the threshold behind it.
C7_NoRegionRaises ==
    (arg.fn = "analyze_front" /\ ret # NotRun) =>
        /\ Closing(Binarize(arg.img, arg.thresh), arg.img.h, arg.img.w) = {} =>
               IsRaised(ret) /\ ret.raised = "NoRegionFound"
        /\ (\A p \in Pixels(arg.img.h, arg.img.w) : arg.img.px[p] <= arg.thresh) =>
               IsRaised(ret)
        /\ ~IsRaised(ret) =>
               /\ ret.Area >= 1
               /\ \E p \in Pixels(arg.img.h, arg.img.w) : arg.img.px[p] > arg.thresh

\* C7: analyze_front raised on a frame that has bright pixels, none of them
\* above the threshold.
C7_Witness ==
    /\ arg.fn = "analyze_front"
    /\ ret # NotRun
    /\ IsRaised(ret)
    /\ arg.thresh = Bright
    /\ \E p \in Pixels(arg.img.h, arg.img.w) : arg.img.px[p] = Bright

\* The components of the closed mask of the frame in arg, in label order
ArgComponents == Label(Closing(Binarize(arg.img, arg.thresh), arg.img.h, arg.img.w),
                       arg.img.w)

\* The row reports component c: its pixel count and its tight bounding box
Reports(row, c) ==
    /\ row.Area = Cardinality(c)
    /\ \A p \in c : /\ row.MinRow <= p[1] /\ p[1] < row.MaxRow
                    /\ row.MinCol <= p[2] /\ p[2] < row.MaxCol
    /\ \E p \in c : p[1] = row.MinRow
    /\ \E p \in c : p[1] = row.MaxRow - 1
    /\ \E p \in c : p[2] = row.MinCol
    /\ \E p \in c : p[2] = row.MaxCol - 1

C9_BubbleConcat ==
    pc = "done" =>
        df.rows = ConcatAll([k \in 1..Len(file_list) |-> results[k].rows])

\* File i is decodable and has between 1 and 4 frames
Short(i) ==
    /\ ~IsRaised(open_video(file_list[i]))
    /\ Len(FramesOf(i)) \in 1..4

\* C10: the frame shown for ROI selection is frame n - 10 of a clip of
\* n >= 10 frames and frame 2n - 10 of a clip of 5 to 9 frames; a clip of 1 to
\* 4 frames makes obtain_cropping_boxes raise IndexError, main gets no
\* cropping box, no task is dispatched and nothing is persisted.
C10_RoiFrame ==
    /\ \A i \in 1..Len(shown) :
           /\ Len(FramesOf(i)) >= 5
           /\ Len(FramesOf(i)) >= 10 => shown[i] = Len(FramesOf(i)) - 10
           /\ Len(FramesOf(i)) \in 5..9 => shown[i] = 2 * Len(FramesOf(i)) - 10
    /\ (\E i \in 1..Len(file_list) : Short(i)) =>
           /\ df_crop = <<>> /\ status = <<>> /\ results = <<>> /\ df_list = <<>>
           /\ pc \notin {"parallel", "concat", "save"}
           /\ pc \in {"plot", "done"} => df = blob /\ shown = <<>>
           /\ blob \in {NoBlob, OldDf}
    /\ (pc = "aborted" /\ Len(shown) < Len(file_list) /\ Short(Len(shown) + 1)) =>
           err = "IndexError" /\ roi_df = <<>>

\* C10: the first clip had 6 to 9 frames and its ROI frame index wrapped;
\* the second had 1 to 4 frames and ended the run with IndexError.
C10_Witness ==
    /\ pc = "aborted"
    /\ err = "IndexError"
    /\ Len(shown) = 1
    /\ shown[1] = 2 * Len(FramesOf(1)) - 10
    /\ shown[1] > 0
    /\ Short(2)

=============================================================================
